---- MODULE Spec2Model ----
(***************************************************************************)
(* State-machine model of the game-state simulator of yass (src/game.c):   *)
(* the World aggregate, its event queue, the collision bridge and the      *)
(* fixed-timestep update loop.                                             *)
(*                                                                         *)
(* Numbers.  The C code computes with float/double; the model computes     *)
(* with integers in fixed units:                                           *)
(*   time      1 tick  = 1/TicksPerSecond s  (SIMULATION_STEP = 2 ticks)   *)
(*   velocity  1 unit  = 1/VelScale px/s                                   *)
(*   position  1 unit  = 1/(VelScale*TicksPerSecond) px                    *)
(* so that  x += vel * dt  is exact.  Hitpoints are the C values.          *)
(***************************************************************************)
EXTENDS Integers, Naturals, Sequences, FiniteSets, TLC

(***************************************************************************)
(* Units and bounds                                                        *)
(***************************************************************************)
TicksPerSecond == 30
VelScale == 20
PosScale == VelScale * TicksPerSecond
UnitOne == 1000

\* Bounds of the model.  MAX_ENEMIES is used by src/game.c:172 and set in
\* no file of src/; EVENT_QUEUE_BASE_SIZE is 20 in src/game.h:19 and is
\* small here so that a single call fills the queue and makes it grow.
MAX_ENEMIES == 2
EVENT_QUEUE_BASE_SIZE == 2
\* number of world_update calls, and the longest dt (in ticks)
MaxFrames == 2
\* longest asteroid list and longest projectile list the adds build
MaxAsteroids == 2
MaxProjectiles == 2
MaxDt == 4
\* number of world_update calls of the pursuit runs
ChaseFrames == 10
\* number of world_update calls of the runs that exercise the handler
HandlerFrames == 1

Worlds == {"A", "B"}
DtSet == {0, 1, MaxDt}

(***************************************************************************)
(* Program constants (src/game.h, src/game.c)                              *)
(***************************************************************************)
SCREEN_HEIGHT == 800
ENEMY_INITIAL_HITPOINTS == 30
ENEMY_COLLISION_DAMAGE == 50
PLAYER_INITIAL_HITPOINTS == 100
PLAYER_INITIAL_SPEED == 200 * VelScale
PLAYER_ACTION_SHOOT_RATE == 1
PLAYER_PROJECTILE_INITIAL_SPEED == 400 * VelScale
PLAYER_PROJECTILE_TTL == 5 * TicksPerSecond
SIMULATION_STEP == TicksPerSecond \div 15
BODY_RADIUS == 40
MAX_STEER == VelScale \div 2

ACTION_MOVE_LEFT == 1
ACTION_MOVE_RIGHT == 2
ACTION_SHOOT == 4

BODY_TYPE_PLAYER == 1
BODY_TYPE_ENEMY == 2
BODY_TYPE_ASTEROID == 4

EVENT_PLAYER_HIT == 1
EVENT_ENEMY_HIT == 2
EVENT_ASTEROID_HIT == 3

\* full turn (2*M_PI) in rotation units
FULL_TURN == 360

(***************************************************************************)
(* Integer helpers                                                         *)
(***************************************************************************)
\* C conversion/division semantics: truncation toward zero
TruncDiv(a, b) == IF a >= 0 THEN a \div b ELSE -((-a) \div b)

RECURSIVE IsqrtIter(_, _, _)
IsqrtIter(n, lo, hi) ==
    IF lo >= hi THEN lo
    ELSE LET mid == (lo + hi + 1) \div 2
         IN  IF mid * mid <= n THEN IsqrtIter(n, mid, hi)
             ELSE IsqrtIter(n, lo, mid - 1)

\* floor of the square root
Isqrt(n) == IsqrtIter(n, 0, IF n < 46340 THEN n ELSE 46340)

\* ceiling of the square root
IsqrtUp(n) == LET r == Isqrt(n) IN IF r * r = n THEN r ELSE r + 1

\* bit test of a C bitmask (bit is a power of two)
HasBit(mask, bit) == (mask \div bit) % 2 = 1


(***************************************************************************)
(* Vectors (matlib): records [x, y]; directions are fixed-point numbers    *)
(* with UnitOne = 1.0                                                      *)
(***************************************************************************)
vec(x, y) == [x |-> x, y |-> y]

vec_sub(a, b) == [x |-> a.x - b.x, y |-> a.y - b.y]

vec_add(a, b) == [x |-> a.x + b.x, y |-> a.y + b.y]

\* squared length
vec_len2(v) == v.x * v.x + v.y * v.y

\* unit vector of v (fixed point); v is a position difference, measured
\* in 1/VelScale of its unit before squaring to stay within 32 bits
vec_norm(v) ==
    LET c   == [x |-> TruncDiv(v.x, VelScale), y |-> TruncDiv(v.y, VelScale)]
        len == Isqrt(vec_len2(c))
    IN  IF len = 0 THEN vec(0, 0)
        ELSE [x |-> TruncDiv(c.x * UnitOne, len),
              y |-> TruncDiv(c.y * UnitOne, len)]

\* fixed-point direction times scalar
vec_mulf(dir, f) ==
    [x |-> TruncDiv(dir.x * f, UnitOne), y |-> TruncDiv(dir.y * f, UnitOne)]

\* limit the length of v to max
vec_clamp(v, max) ==
    IF vec_len2(v) > max * max
    THEN LET len == IsqrtUp(vec_len2(v))
         IN  [x |-> TruncDiv(v.x * max, len), y |-> TruncDiv(v.y * max, len)]
    ELSE v

(***************************************************************************)
(* Records                                                                 *)
(***************************************************************************)
\* struct Body: the part the collision engine reads
Body(x, y, type, mask) ==
    [x |-> x, y |-> y, radius |-> BODY_RADIUS * PosScale,
     type |-> type, collision_mask |-> mask]

ZeroBody == [x |-> 0, y |-> 0, radius |-> 0, type |-> 0, collision_mask |-> 0]

\* rotation of an enemy: <<"rad", 0, 0>> is 0.0, <<"atan2", y, x>> is
\* M_PI / 2 - atan2(y, x)
ZeroRot == <<"rad", 0, 0>>

Heading(vel) == <<"atan2", vel.y, vel.x>>

\* a zero-filled struct Enemy
ZeroEnemy ==
    [x |-> 0, y |-> 0, xvel |-> 0, yvel |-> 0, rot |-> ZeroRot,
     hitpoints |-> 0, speed |-> 0, id |-> 0, body |-> ZeroBody]

\* the struct Enemy the script builds: x, y, speed set, the rest zero
EnemyArg(x, y, speed) == [ZeroEnemy EXCEPT !.x = x, !.y = y, !.speed = speed]

\* the Player after world_new
InitPlayer ==
    LET y == (SCREEN_HEIGHT \div 2 - 50) * PosScale
    IN  [hitpoints |-> PLAYER_INITIAL_HITPOINTS, x |-> 0, y |-> y,
         actions |-> 0, speed |-> PLAYER_INITIAL_SPEED, shoot_cooldown |-> 0,
         body |-> Body(0, y, BODY_TYPE_PLAYER,
                       BODY_TYPE_ENEMY + BODY_TYPE_ASTEROID)]

\* references the collision engine holds: the Body embedded in an entity
PlayerRef == [type |-> BODY_TYPE_PLAYER, idx |-> 0]

EnemyRef(i) == [type |-> BODY_TYPE_ENEMY, idx |-> i]

\* the Body of the asteroid at list position k
AsteroidRef(k) == [type |-> BODY_TYPE_ASTEROID, idx |-> k]

NoEvent == [type |-> 0, entity_hnd |-> 0]

\* the allocations behind a World: the record itself and the four pointer
\* fields world_new fills; "null" is the zero value, "live" an allocation
\* nobody has released, "freed" one released once
ResFields == {"world", "asteroid_list", "projectile_list", "sim", "event_queue"}

NoWorld == [f \in ResFields |-> "null"]

\* the allocations of a World world_new has returned
BuiltWorld == [f \in ResFields |-> "live"]

\* a struct Asteroid as the list holds it: mem is the storage the listed
\* pointer refers to ("heap": a record from make, "stack": an automatic
\* variable of a function that has returned)
Asteroid(x, y, xvel, yvel, rot_speed, mem) ==
    [id |-> 0, x |-> x, y |-> y, xvel |-> xvel, yvel |-> yvel, rot |-> 0,
     rot_speed |-> rot_speed, mem |-> mem]

(***************************************************************************)
(* State                                                                   *)
(***************************************************************************)
VARIABLES
    live,              \* the Worlds world_new has returned
    player,            \* w -> struct Player
    enemies,           \* w -> [0..MAX_ENEMIES-1 -> struct Enemy]
    enemy_count,       \* w -> number of used enemy slots
    asteroid_list,     \* w -> sequence of struct Asteroid
    projectile_list,   \* w -> sequence of struct Projectile
    bodies,            \* w -> the engine's body list (references)
    sim_time,          \* w -> sum of the step sizes the engine was given
    event_queue,       \* w -> the live entries of the event queue
    event_count,       \* w -> number of live entries
    event_queue_size,  \* w -> capacity of the event queue
    sim_acc,           \* the static accumulator of world_update
    pc,                \* position of the running world_update call
    cur,               \* the World of the running call
    dt,                \* the dt of the running call
    evt_i,             \* loop index of the event loop
    pending,           \* collisions the running sim_step has still to report
    swapped,           \* the engine passes a pair's bodies in reverse list
                       \* order (a property of the engine, fixed at start)
    ret,               \* return value of the last call
    \* history variables: they record what happened and guard nothing but
    \* the bounds of the model
    add_rets,          \* w -> the values world_add_enemy returned, in order
    steps,             \* w -> number of sim_step calls
    dt_sum,            \* w -> sum of the dt passed to world_update
    frames,            \* number of world_update calls so far
    call_steps,        \* number of sim_step calls of the running call
    reg_fails,         \* w -> number of sim_add_body calls that failed
    call_produced,     \* events appended during the running call
    call_drained,      \* events applied during the running call
    res,               \* w -> state of the allocations behind a World
    script_rets,       \* w -> the values game.add_asteroid returned, in order
    spawn_failed,      \* some projectile spawn has failed
    held               \* w -> the shoot bit was set in every call so far

vars == <<live, player, enemies, enemy_count, asteroid_list, projectile_list,
          bodies, sim_time, event_queue, event_count, event_queue_size,
          sim_acc, pc, cur, dt, evt_i, pending, swapped, ret, add_rets, steps,
          dt_sum, frames, call_steps, reg_fails, call_produced, call_drained,
          res, script_rets, spawn_failed, held>>

EnemySlots == 0..(MAX_ENEMIES - 1)

InitState(ws, r) ==
    /\ live = ws
    /\ player = [w \in Worlds |-> InitPlayer]
    /\ enemies = [w \in Worlds |-> [i \in EnemySlots |-> ZeroEnemy]]
    /\ enemy_count = [w \in Worlds |-> 0]
    /\ asteroid_list = [w \in Worlds |-> <<>>]
    /\ projectile_list = [w \in Worlds |-> <<>>]
    /\ bodies = [w \in Worlds |-> <<PlayerRef>>]
    /\ sim_time = [w \in Worlds |-> 0]
    /\ event_queue = [w \in Worlds |-> <<>>]
    /\ event_count = [w \in Worlds |-> 0]
    /\ event_queue_size = [w \in Worlds |-> EVENT_QUEUE_BASE_SIZE]
    /\ sim_acc = 0
    /\ pc = "idle"
    /\ cur = "A"
    /\ dt = 0
    /\ evt_i = 0
    /\ pending = <<>>
    /\ swapped \in BOOLEAN
    /\ ret = 0
    /\ add_rets = [w \in Worlds |-> <<>>]
    /\ steps = [w \in Worlds |-> 0]
    /\ dt_sum = [w \in Worlds |-> 0]
    /\ frames = 0
    /\ call_steps = 0
    /\ reg_fails = [w \in Worlds |-> 0]
    /\ call_produced = <<>>
    /\ call_drained = <<>>
    /\ res = r
    /\ script_rets = [w \in Worlds |-> <<>>]
    /\ spawn_failed = FALSE
    /\ held = [w \in Worlds |-> TRUE]

\* world_new has returned the Worlds ws and has not been called for the
\* others
InitWith(ws) ==
    InitState(ws, [w \in Worlds |-> IF w \in ws THEN BuiltWorld ELSE NoWorld])

\* one World constructed
Init == InitWith({"A"})

\* two Worlds constructed
InitTwo == InitWith(Worlds)

\* no World constructed yet
InitLife == InitWith({})

\* the Worlds world_destroy can be handed: a World as world_new builds it,
\* complete or as far as world_new got when one of its steps failed (the
\* lists before the engine, the engine before the event queue)
PartialWorlds ==
    {r \in [ResFields -> {"null", "live"}] :
       /\ r.world = "live"
       /\ r.sim = "live" =>
            (r.asteroid_list = "live" /\ r.projectile_list = "live")
       /\ r.event_queue = "live" => r.sim = "live"}

\* World A is complete or partially constructed
InitPartial ==
    \E r \in PartialWorlds :
       InitState(IF r = BuiltWorld THEN {"A"} ELSE {},
                 [w \in Worlds |-> IF w = "A" THEN r ELSE NoWorld])

(***************************************************************************)
(* Collision engine (physics.h): body list, overlap test, handlers         *)
(***************************************************************************)
\* sim_add_body: append the reference to the engine's list
sim_add_body(bs, ref) == Append(bs, ref)

\* sim_remove_body: drop the reference from the engine's list
sim_remove_body(bs, ref) == SelectSeq(bs, LAMBDA b : b # ref)

\* number of times ref is registered
Registered(bs, ref) == Cardinality({k \in 1..Len(bs) : bs[k] = ref})

\* the Body a reference points to
BodyOf(w, ref) ==
    IF ref.type = BODY_TYPE_PLAYER THEN player[w].body
    ELSE IF ref.type = BODY_TYPE_ENEMY THEN enemies[w][ref.idx].body
    ELSE asteroid_list[w][ref.idx].body

\* type_mask of the handlers world_new registers
HandlerMasks ==
    {BODY_TYPE_PLAYER + BODY_TYPE_ENEMY, BODY_TYPE_PLAYER + BODY_TYPE_ASTEROID}

\* two circles overlap (distances in 1/VelScale of the position unit)
Overlap(a, b) ==
    LET d == [x |-> TruncDiv(a.x - b.x, VelScale),
              y |-> TruncDiv(a.y - b.y, VelScale)]
        r == (a.radius + b.radius) \div VelScale
    IN  vec_len2(d) <= r * r

\* the engine reports the pair <<ra, rb>> in this step
Collides(w, ra, rb) ==
    LET a == BodyOf(w, ra)
        b == BodyOf(w, rb)
    IN  /\ HasBit(a.collision_mask, b.type) \/ HasBit(b.collision_mask, a.type)
        /\ (a.type + b.type) \in HandlerMasks
        /\ Overlap(a, b)

RECURSIVE PairsFrom(_, _, _)
PairsFrom(bs, i, j) ==
    IF i >= Len(bs) THEN <<>>
    ELSE IF j > Len(bs) THEN PairsFrom(bs, i + 1, i + 2)
    ELSE <<(<<bs[i], bs[j]>>)>> \o PairsFrom(bs, i, j + 1)

\* the pairs one sim_step reports, in body-list order
CollidingPairs(w) ==
    SelectSeq(PairsFrom(bodies[w], 1, 2), LAMBDA p : Collides(w, p[1], p[2]))


(***************************************************************************)
(* Event queue and collision bridge                                        *)
(***************************************************************************)
\* variant: the capacity is not raised
GrownSize_Same(size) == size

\* capacity after one growth of the queue
GrownSize(size) == size + EVENT_QUEUE_BASE_SIZE

\* variant: the event is put at the head of the queue
QueueAppend_Front(q, n, evt) == <<evt>> \o SubSeq(q, 1, n)

\* world->event_queue[world->event_count++] = *evt
QueueAppend(q, n, evt) == Append(SubSeq(q, 1, n), evt)

\* add_event: grow the queue when it is full (realloc may fail, and then
\* the process exits), then append
add_event(w, evt) ==
    IF event_count[w] = event_queue_size[w]
    THEN \/ /\ event_queue_size' =
                 [event_queue_size EXCEPT ![w] = GrownSize(event_queue_size[w])]
            /\ event_queue' =
                 [event_queue EXCEPT ![w] = QueueAppend(@, event_count[w], evt)]
            /\ event_count' = [event_count EXCEPT ![w] = @ + 1]
            /\ call_produced' = Append(call_produced, evt)
            /\ pc' = pc
         \/ /\ pc' = "exited"
            /\ UNCHANGED <<event_queue, event_count, event_queue_size,
                           call_produced>>
    ELSE /\ event_queue' =
              [event_queue EXCEPT ![w] = QueueAppend(@, event_count[w], evt)]
         /\ event_count' = [event_count EXCEPT ![w] = @ + 1]
         /\ call_produced' = Append(call_produced, evt)
         /\ UNCHANGED event_queue_size
         /\ pc' = pc

\* variant: the type of the first body is not tested
handle_player_collision_AnyFirst(w, a, b) ==
    IF b.type = BODY_TYPE_ENEMY
    THEN [type |-> EVENT_ENEMY_HIT, entity_hnd |-> enemies[w][b.idx].id]
    ELSE IF b.type = BODY_TYPE_ASTEROID
         THEN [type |-> EVENT_ASTEROID_HIT, entity_hnd |-> asteroid_list[w][b.idx].id]
    ELSE NoEvent

\* the event handle_player_collision builds for the pair (a, b); type 0
\* means that nothing is enqueued
handle_player_collision(w, a, b) ==
    IF a.type # BODY_TYPE_PLAYER THEN NoEvent
    ELSE IF b.type = BODY_TYPE_ENEMY
         THEN [type |-> EVENT_ENEMY_HIT, entity_hnd |-> enemies[w][b.idx].id]
    ELSE IF b.type = BODY_TYPE_ASTEROID
         THEN [type |-> EVENT_ASTEROID_HIT, entity_hnd |-> asteroid_list[w][b.idx].id]
    ELSE NoEvent

\* variant: the handler removes the body it was told about
HandlerBodies_Remove(bs, a, b) == sim_remove_body(bs, b)

\* the engine's body list after handle_player_collision(a, b): the handler
\* calls neither sim_add_body nor sim_remove_body
HandlerBodies(bs, a, b) == bs

\* the value handle_player_collision(a, b) returns: both of its return
\* statements return 1
HandlerRet(a, b) == 1

\* the engine calls handle_player_collision(a, b, world) during a step, for
\* any two bodies a and b; the handler's return value is kept in ret
HandlerCall(a, b) ==
    /\ pc = "sim_step"
    /\ Len(call_produced) < EVENT_QUEUE_BASE_SIZE
    /\ LET evt == handle_player_collision(cur, a, b)
       IN  IF evt.type # 0
           THEN add_event(cur, evt)
           ELSE UNCHANGED <<event_queue, event_count, event_queue_size,
                            call_produced, pc>>
    /\ bodies' = [bodies EXCEPT ![cur] = HandlerBodies(@, a, b)]
    /\ ret' = HandlerRet(a, b)
    /\ UNCHANGED <<live, player, enemies, enemy_count, asteroid_list,
                   projectile_list, sim_time, sim_acc, cur, dt, evt_i,
                   pending, swapped, add_rets, steps, dt_sum, frames,
                   call_steps, reg_fails, call_drained, res, script_rets,
                   spawn_failed, held>>

(***************************************************************************)
(* Entity registry                                                         *)
(***************************************************************************)
\* variant: the id counts from one
NewEnemy_IdFromOne(enemy, i) ==
    [enemy EXCEPT !.hitpoints = ENEMY_INITIAL_HITPOINTS,
                  !.id = i + 1,
                  !.body = Body(enemy.x, enemy.y, BODY_TYPE_ENEMY, BODY_TYPE_PLAYER)]

\* the slot world_add_enemy fills from the caller's struct
NewEnemy(enemy, i) ==
    [enemy EXCEPT !.hitpoints = ENEMY_INITIAL_HITPOINTS,
                  !.id = i,
                  !.body = Body(enemy.x, enemy.y, BODY_TYPE_ENEMY, BODY_TYPE_PLAYER)]

\* variant: off-by-one capacity test
HasRoom_OffByOne(n) == n <= MAX_ENEMIES

\* world->enemy_count < MAX_ENEMIES
HasRoom(n) == n < MAX_ENEMIES

\* world_add_enemy; reg_ok: sim_add_body succeeds
world_add_enemy(w, enemy, reg_ok) ==
    /\ pc = "idle"
    /\ w \in live
    /\ Len(add_rets[w]) <= MAX_ENEMIES
    /\ IF HasRoom(enemy_count[w])
       THEN LET i == enemy_count[w]
            IN  /\ enemy_count' = [enemy_count EXCEPT ![w] = i + 1]
                /\ enemies' = [enemies EXCEPT ![w][i] = NewEnemy(enemy, i)]
                /\ IF reg_ok
                   THEN /\ bodies' = [bodies EXCEPT ![w] = sim_add_body(@, EnemyRef(i))]
                        /\ ret' = i
                   ELSE /\ UNCHANGED bodies
                        /\ ret' = -1
                /\ reg_fails' =
                     [reg_fails EXCEPT ![w] = IF reg_ok THEN @ ELSE @ + 1]
       ELSE /\ ret' = -1
            /\ UNCHANGED <<enemy_count, enemies, bodies, reg_fails>>
    /\ add_rets' = [add_rets EXCEPT ![w] = Append(@, ret')]
    /\ UNCHANGED <<live, player, asteroid_list, projectile_list, sim_time,
                   event_queue, event_count, event_queue_size, sim_acc, pc,
                   cur, dt, evt_i, pending, swapped, steps, dt_sum, frames,
                   call_steps, call_produced, call_drained>>
    /\ UNCHANGED <<res, script_rets, spawn_failed, held>>

\* the input layer sets the player's action bits
SetActions(w, a) ==
    /\ pc = "idle"
    /\ w \in live
    /\ player[w].actions # a
    /\ player' = [player EXCEPT ![w].actions = a]
    /\ UNCHANGED <<live, enemies, enemy_count, asteroid_list, projectile_list,
                   bodies, sim_time, event_queue, event_count,
                   event_queue_size, sim_acc, pc, cur, dt, evt_i, pending,
                   swapped, ret, add_rets, steps, dt_sum, frames, call_steps,
                   reg_fails, call_produced, call_drained>>
    /\ UNCHANGED <<res, script_rets, spawn_failed, held>>


(***************************************************************************)
(* Entity lists and the scripting entry points (script.c)                  *)
(***************************************************************************)
\* list_add: the list after the call; ok: the node allocation succeeds
list_add(list, data, ok) == IF ok THEN Append(list, data) ELSE list

\* list_add: the value it returns, a success flag
list_add_ret(list, ok) == IF ok THEN 1 ELSE 0

\* world_add_asteroid(w, ast) by a caller that made ast on the heap
world_add_asteroid(w, ast, ok) ==
    /\ pc = "idle"
    /\ w \in live
    /\ Len(asteroid_list[w]) < MaxAsteroids
    /\ asteroid_list' = [asteroid_list EXCEPT ![w] = list_add(@, ast, ok)]
    /\ ret' = list_add_ret(asteroid_list[w], ok)
    /\ UNCHANGED <<live, player, enemies, enemy_count, projectile_list,
                   bodies, sim_time, event_queue, event_count,
                   event_queue_size, sim_acc, pc, cur, dt, evt_i, pending,
                   swapped, add_rets, steps, dt_sum, frames, call_steps,
                   reg_fails, call_produced, call_drained, res, script_rets,
                   spawn_failed, held>>

\* world_add_projectile(w, prj)
world_add_projectile(w, prj, ok) ==
    /\ pc = "idle"
    /\ w \in live
    /\ Len(projectile_list[w]) < MaxProjectiles
    /\ projectile_list' = [projectile_list EXCEPT ![w] = list_add(@, prj, ok)]
    /\ ret' = list_add_ret(projectile_list[w], ok)
    /\ UNCHANGED <<live, player, enemies, enemy_count, asteroid_list, bodies,
                   sim_time, event_queue, event_count, event_queue_size,
                   sim_acc, pc, cur, dt, evt_i, pending, swapped, add_rets,
                   steps, dt_sum, frames, call_steps, reg_fails,
                   call_produced, call_drained, res, script_rets,
                   spawn_failed, held>>

\* the struct Asteroid that game.add_asteroid builds in its own frame
ScriptAsteroid(x, y, xvel, yvel, rot_spd) ==
    Asteroid(x, y, xvel, yvel, rot_spd, "stack")

\* game.add_asteroid(x, y, xvel, yvel, rot_spd): the address of the local
\* record is handed to world_add_asteroid and the call's result is pushed
\* as the script's return value; pos is the list position of the record
\* (0: not listed)
luafunc_add_asteroid(w, x, y, xvel, yvel, rot_spd, ok) ==
    /\ pc = "idle"
    /\ w \in live
    /\ Len(asteroid_list[w]) < MaxAsteroids
    /\ Len(script_rets[w]) < MaxAsteroids
    /\ LET ast == ScriptAsteroid(x, y, xvel, yvel, rot_spd)
           idx == list_add_ret(asteroid_list[w], ok)
       IN  /\ asteroid_list' = [asteroid_list EXCEPT ![w] = list_add(@, ast, ok)]
           /\ ret' = idx
           /\ script_rets' = [script_rets EXCEPT ![w] =
                 Append(@, [ret |-> idx,
                            pos |-> IF ok THEN Len(asteroid_list[w]) + 1 ELSE 0])]
    /\ UNCHANGED <<live, player, enemies, enemy_count, projectile_list,
                   bodies, sim_time, event_queue, event_count,
                   event_queue_size, sim_acc, pc, cur, dt, evt_i, pending,
                   swapped, add_rets, steps, dt_sum, frames, call_steps,
                   reg_fails, call_produced, call_drained, res, spawn_failed,
                   held>>

\* game.add_enemy(x, y, speed): the result of world_add_enemy is pushed as
\* the script's return value
luafunc_add_enemy(w, x, y, speed, reg_ok) ==
    world_add_enemy(w, EnemyArg(x, y, speed), reg_ok)

(***************************************************************************)
(* World lifecycle: world_new, world_destroy                               *)
(***************************************************************************)
\* free / sim_destroy / list_destroy / destroy of one allocation; a null
\* pointer is accepted and nothing happens
Release(st) == IF st = "live" THEN "freed" ELSE st

\* the lists the loop of world_destroy walks: lists[] is {asteroid_list,
\* projectile_list, NULL} and the loop ends at the first null entry
ListsWalked(r) ==
    IF r.asteroid_list = "null" THEN {}
    ELSE IF r.projectile_list = "null" THEN {"asteroid_list"}
    ELSE {"asteroid_list", "projectile_list"}

\* what world_destroy(w) does to the allocations of a non-null w
DestroyRes(r) ==
    [f \in ResFields |->
       IF f \in {"asteroid_list", "projectile_list"}
       THEN IF f \in ListsWalked(r) THEN Release(r[f]) ELSE r[f]
       ELSE Release(r[f])]

\* the steps of world_new that can fail, in program order
NewSteps ==
    <<"world", "asteroid_list", "projectile_list", "sim", "handler1",
      "handler2", "event_queue", "player_body">>

\* the allocations world_new leaves behind; fails: the steps that fail if
\* they are attempted. The result is NoWorld when make(struct World) fails.
NewRes(fails) ==
    LET r1 == [NoWorld EXCEPT
                 !.world = "live",
                 !.asteroid_list =
                    IF "asteroid_list" \in fails THEN "null" ELSE "live",
                 !.projectile_list =
                    IF "projectile_list" \in fails THEN "null" ELSE "live"]
        r2 == [r1 EXCEPT !.sim = "live"]
        r3 == [r2 EXCEPT !.event_queue = "live"]
    IN  IF "world" \in fails THEN NoWorld
        ELSE IF r1.asteroid_list = "null" \/ r1.projectile_list = "null"
        THEN r1                       \* world_destroy(NULL): nothing released
        ELSE IF "sim" \in fails THEN DestroyRes(r1)
        ELSE IF "handler1" \in fails \/ "handler2" \in fails
        THEN DestroyRes(r2)
        ELSE IF "event_queue" \in fails THEN DestroyRes(r2)
        ELSE IF "player_body" \in fails THEN DestroyRes(r3)
        ELSE r3

\* world_new returns a World
NewOk(fails) == NewRes(fails) = BuiltWorld

\* world_new() for the World named w; ret is 1 for a World, 0 for NULL
world_new(w, fails) ==
    /\ pc = "idle"
    /\ res[w] = NoWorld
    /\ res' = [res EXCEPT ![w] = NewRes(fails)]
    /\ live' = IF NewOk(fails) THEN live \cup {w} ELSE live
    /\ ret' = IF NewOk(fails) THEN 1 ELSE 0
    /\ player' = [player EXCEPT ![w] = InitPlayer]
    /\ bodies' = [bodies EXCEPT ![w] = sim_add_body(<<>>, PlayerRef)]
    /\ event_queue_size' = [event_queue_size EXCEPT ![w] = EVENT_QUEUE_BASE_SIZE]
    /\ UNCHANGED <<enemies, enemy_count, asteroid_list, projectile_list,
                   sim_time, event_queue, event_count, sim_acc, pc, cur, dt,
                   evt_i, pending, swapped, add_rets, steps, dt_sum, frames,
                   call_steps, reg_fails, call_produced, call_drained,
                   script_rets, spawn_failed, held>>

\* the records of a walked list are destroyed one by one and the list is
\* emptied
DestroyList(r, f, list) == IF f \in ListsWalked(r) THEN <<>> ELSE list

\* destroy(node->data) is handed a pointer that make never returned
BadFree(r, list) ==
    /\ "asteroid_list" \in ListsWalked(r)
    /\ \E k \in 1..Len(list) : list[k].mem = "stack"

\* world_destroy(w) on an allocated World; crash: the allocator aborts the
\* process when it is handed a pointer that is not from the heap
world_destroy(w, crash) ==
    /\ pc = "idle"
    /\ res[w].world = "live"
    /\ res' = [res EXCEPT ![w] = DestroyRes(@)]
    /\ live' = live \ {w}
    /\ asteroid_list' = [asteroid_list EXCEPT ![w] =
                           DestroyList(res[w], "asteroid_list", @)]
    /\ projectile_list' = [projectile_list EXCEPT ![w] =
                             DestroyList(res[w], "projectile_list", @)]
    /\ pc' = IF crash /\ BadFree(res[w], asteroid_list[w])
             THEN "exited" ELSE pc
    /\ UNCHANGED <<player, enemies, enemy_count, bodies, sim_time,
                   event_queue, event_count, event_queue_size, sim_acc, cur,
                   dt, evt_i, pending, swapped, ret, add_rets, steps, dt_sum,
                   frames, call_steps, reg_fails, call_produced, call_drained,
                   script_rets, spawn_failed, held>>

(***************************************************************************)
(* world_update: physics                                                   *)
(***************************************************************************)
\* the step size world_update passes to sim_step
StepArg(d) == SIMULATION_STEP

\* variant: strict comparison
StepDue_Strict(acc) == acc > SIMULATION_STEP

\* the condition of the physics loop
StepDue(acc) == acc >= SIMULATION_STEP

\* entry of world_update(w, d): sim_acc += dt
UpdateBeginUpTo(w, d, cap) ==
    /\ pc = "idle"
    /\ w \in live
    /\ frames < cap
    /\ sim_acc' = sim_acc + d
    /\ pc' = "physics"
    /\ cur' = w
    /\ dt' = d
    /\ dt_sum' = [dt_sum EXCEPT ![w] = @ + d]
    /\ frames' = frames + 1
    /\ call_steps' = 0
    /\ call_produced' = <<>>
    /\ call_drained' = <<>>
    /\ held' = [held EXCEPT ![w] = @ /\ HasBit(player[w].actions, ACTION_SHOOT)]
    /\ UNCHANGED <<live, player, enemies, enemy_count, asteroid_list,
                   projectile_list, bodies, sim_time, event_queue, event_count,
                   event_queue_size, evt_i, pending, swapped, ret, add_rets,
                   steps, reg_fails, res, script_rets, spawn_failed>>

\* world_update(w, d) is called, at most MaxFrames times
UpdateBegin(w, d) == UpdateBeginUpTo(w, d, MaxFrames)

\* while (sim_acc >= SIMULATION_STEP): sim_step is entered; the engine
\* finds the overlapping pairs it is going to report
SimStepBegin ==
    /\ pc = "physics"
    /\ StepDue(sim_acc)
    /\ pending' = CollidingPairs(cur)
    /\ steps' = [steps EXCEPT ![cur] = @ + 1]
    /\ call_steps' = call_steps + 1
    /\ sim_time' = [sim_time EXCEPT ![cur] = @ + StepArg(dt)]
    /\ pc' = "sim_step"
    /\ UNCHANGED <<live, player, enemies, enemy_count, asteroid_list,
                   projectile_list, bodies, event_queue, event_count,
                   event_queue_size, sim_acc, cur, dt, evt_i, swapped, ret,
                   add_rets, dt_sum, frames, reg_fails, call_produced,
                   call_drained>>
    /\ UNCHANGED <<res, script_rets, spawn_failed, held>>

\* inside sim_step: the engine calls the handler for the next pair
Callback ==
    /\ pc = "sim_step"
    /\ pending # <<>>
    /\ LET p   == Head(pending)
           a   == IF swapped THEN p[2] ELSE p[1]
           b   == IF swapped THEN p[1] ELSE p[2]
           evt == handle_player_collision(cur, a, b)
       IN  /\ IF evt.type # 0
              THEN add_event(cur, evt)
              ELSE UNCHANGED <<event_queue, event_count, event_queue_size,
                               call_produced, pc>>
           /\ bodies' = [bodies EXCEPT ![cur] = HandlerBodies(@, a, b)]
    /\ pending' = Tail(pending)
    /\ UNCHANGED <<live, player, enemies, enemy_count, asteroid_list,
                   projectile_list, sim_time, sim_acc, cur, dt, evt_i, swapped,
                   ret, add_rets, steps, dt_sum, frames, call_steps, reg_fails,
                   call_drained>>
    /\ UNCHANGED <<res, script_rets, spawn_failed, held>>

\* sim_step returns: sim_acc -= SIMULATION_STEP
SimStepEnd ==
    /\ pc = "sim_step"
    /\ pending = <<>>
    /\ sim_acc' = sim_acc - SIMULATION_STEP
    /\ pc' = "physics"
    /\ UNCHANGED <<live, player, enemies, enemy_count, asteroid_list,
                   projectile_list, bodies, sim_time, event_queue, event_count,
                   event_queue_size, cur, dt, evt_i, pending, swapped, ret,
                   add_rets, steps, dt_sum, frames, call_steps, reg_fails,
                   call_produced, call_drained>>
    /\ UNCHANGED <<res, script_rets, spawn_failed, held>>

\* the physics loop ends
PhysicsDone ==
    /\ pc = "physics"
    /\ ~StepDue(sim_acc)
    /\ pc' = "events"
    /\ evt_i' = 0
    /\ UNCHANGED <<live, player, enemies, enemy_count, asteroid_list,
                   projectile_list, bodies, sim_time, event_queue, event_count,
                   event_queue_size, sim_acc, cur, dt, pending, swapped, ret,
                   add_rets, steps, dt_sum, frames, call_steps, reg_fails,
                   call_produced, call_drained>>
    /\ UNCHANGED <<res, script_rets, spawn_failed, held>>

(***************************************************************************)
(* world_update: event loop                                                *)
(***************************************************************************)
\* the queue entry the i-th iteration reads
DrainIndex(i) == i + 1

\* plr->hitpoints -= ENEMY_COLLISION_DAMAGE
EnemyHitPlayer(p) == [p EXCEPT !.hitpoints = @ - ENEMY_COLLISION_DAMAGE]

\* variant: the enemy keeps its hitpoints
EnemyHitEnemy_Alive(e) == e

\* world->enemies[evt->entity_hnd].hitpoints = 0
EnemyHitEnemy(e) == [e EXCEPT !.hitpoints = 0]

\* variant: the Body stays registered
EnemyHitBodies_Keep(bs, hnd) == bs

\* sim_remove_body(world->sim, &world->enemies[evt->entity_hnd].body)
EnemyHitBodies(bs, hnd) == sim_remove_body(bs, EnemyRef(hnd))

\* one iteration of the event loop
DrainEvent ==
    /\ pc = "events"
    /\ evt_i < event_count[cur]
    /\ LET evt == event_queue[cur][DrainIndex(evt_i)]
       IN  /\ IF evt.type = EVENT_ENEMY_HIT
              THEN /\ player' = [player EXCEPT ![cur] = EnemyHitPlayer(@)]
                   /\ enemies' =
                        [enemies EXCEPT ![cur][evt.entity_hnd] = EnemyHitEnemy(@)]
                   /\ bodies' =
                        [bodies EXCEPT ![cur] = EnemyHitBodies(@, evt.entity_hnd)]
              ELSE UNCHANGED <<player, enemies, bodies>>
           /\ call_drained' = Append(call_drained, evt)
    /\ evt_i' = evt_i + 1
    /\ UNCHANGED <<live, enemy_count, asteroid_list, projectile_list, sim_time,
                   event_queue, event_count, event_queue_size, sim_acc, pc,
                   cur, dt, pending, swapped, ret, add_rets, steps, dt_sum,
                   frames, call_steps, reg_fails, call_produced>>
    /\ UNCHANGED <<res, script_rets, spawn_failed, held>>

\* variant: the count is not reset
ResetCount_Keep(n) == n

\* world->event_count = 0
ResetCount(n) == 0

\* the event loop ends
DrainEnd ==
    /\ pc = "events"
    /\ evt_i >= event_count[cur]
    /\ event_count' = [event_count EXCEPT ![cur] = ResetCount(@)]
    /\ event_queue' =
         [event_queue EXCEPT ![cur] = SubSeq(@, 1, event_count'[cur])]
    /\ pc' = "motion"
    /\ UNCHANGED <<live, player, enemies, enemy_count, asteroid_list,
                   projectile_list, bodies, sim_time, event_queue_size,
                   sim_acc, cur, dt, evt_i, pending, swapped, ret, add_rets,
                   steps, dt_sum, frames, call_steps, reg_fails, call_produced,
                   call_drained>>
    /\ UNCHANGED <<res, script_rets, spawn_failed, held>>

(***************************************************************************)
(* world_update: entity motion                                             *)
(***************************************************************************)
\* variant: move-right is tested first
MovePlayer_RightFirst(p, d) ==
    LET distance == d * p.speed
        x == IF HasBit(p.actions, ACTION_MOVE_RIGHT) THEN p.x + distance
             ELSE IF HasBit(p.actions, ACTION_MOVE_LEFT) THEN p.x - distance
             ELSE p.x
    IN  [p EXCEPT !.x = x, !.body.x = x]

\* update player position and its body
MovePlayer(p, d) ==
    LET distance == d * p.speed
        x == IF HasBit(p.actions, ACTION_MOVE_LEFT) THEN p.x - distance
             ELSE IF HasBit(p.actions, ACTION_MOVE_RIGHT) THEN p.x + distance
             ELSE p.x
    IN  [p EXCEPT !.x = x, !.body.x = x]

\* 1.0 / PLAYER_ACTION_SHOOT_RATE
ShootPeriod == TicksPerSecond \div PLAYER_ACTION_SHOOT_RATE

\* the shoot condition, on the decremented cooldown
Shoots(p) == HasBit(p.actions, ACTION_SHOOT) /\ p.shoot_cooldown <= 0

\* variant: the projectile is given the opposite velocity
NewProjectile_Down(p) ==
    [id |-> 0, x |-> p.x, y |-> p.y, xvel |-> 0,
     yvel |-> PLAYER_PROJECTILE_INITIAL_SPEED, ttl |-> PLAYER_PROJECTILE_TTL]

\* the projectile a shot makes
NewProjectile(p) ==
    [id |-> 0, x |-> p.x, y |-> p.y, xvel |-> 0,
     yvel |-> -PLAYER_PROJECTILE_INITIAL_SPEED, ttl |-> PLAYER_PROJECTILE_TTL]

\* variant: no slot is skipped
EnemySkipped_Never(e) == FALSE

\* the enemy pass skips this slot
EnemySkipped(e) == e.hitpoints <= 0

\* variant: the new velocity is not clamped to the enemy's speed
SteerEnemy_Unclamped(e, plr, d) ==
    LET target   == vec(plr.x, plr.y)
        pos      == vec(e.x, e.y)
        dir      == vec_norm(vec_sub(target, pos))
        desired  == vec_mulf(dir, e.speed)
        curr_vel == vec(e.xvel, e.yvel)
        steer    == vec_clamp(vec_sub(desired, curr_vel), MAX_STEER)
        vel      == vec_add(curr_vel, steer)
        x        == e.x + vel.x * d
        y        == e.y + vel.y * d
    IN  [e EXCEPT !.xvel = vel.x, !.yvel = vel.y, !.rot = Heading(vel),
                  !.x = x, !.y = y, !.body.x = x, !.body.y = y]

\* steering and integration of one live enemy
SteerEnemy(e, plr, d) ==
    LET target   == vec(plr.x, plr.y)
        pos      == vec(e.x, e.y)
        dir      == vec_norm(vec_sub(target, pos))
        desired  == vec_mulf(dir, e.speed)
        curr_vel == vec(e.xvel, e.yvel)
        steer    == vec_clamp(vec_sub(desired, curr_vel), MAX_STEER)
        vel      == vec_clamp(vec_add(curr_vel, steer), e.speed)
        x        == e.x + vel.x * d
        y        == e.y + vel.y * d
    IN  [e EXCEPT !.xvel = vel.x, !.yvel = vel.y, !.rot = Heading(vel),
                  !.x = x, !.y = y, !.body.x = x, !.body.y = y]

\* integration of one asteroid
UpdateAsteroid(a, d) ==
    LET rot == a.rot + a.rot_speed * d
    IN  [a EXCEPT !.x = @ + a.xvel * d, !.y = @ + a.yvel * d,
                  !.rot = IF rot >= FULL_TURN THEN rot - FULL_TURN ELSE rot]

\* variant: the time-to-live is not tested
UpdateProjectile_Always(prj, d) ==
    [prj EXCEPT !.x = @ + prj.xvel * d, !.y = @ + prj.yvel * d, !.ttl = @ - d]

\* integration of one projectile
UpdateProjectile(prj, d) ==
    IF prj.ttl > 0
    THEN [prj EXCEPT !.x = @ + prj.xvel * d, !.y = @ + prj.yvel * d,
                     !.ttl = @ - d]
    ELSE prj

\* what a read through a listed asteroid pointer yields: the record, or,
\* for a pointer into the frame of a function that has returned, whatever
\* that part of the stack holds by now
ReadAsteroid(a, junk) ==
    IF a.mem = "stack" THEN [junk EXCEPT !.mem = "stack"] ELSE a

\* the rest of world_update after the event loop; prj_ok: make(struct
\* Projectile) succeeds, add_ok: world_add_projectile succeeds, junk: the
\* content found behind dangling asteroid pointers
UpdateMotion(prj_ok, add_ok, junk) ==
    /\ pc = "motion"
    /\ LET p1   == MovePlayer(player[cur], dt)
           p2   == [p1 EXCEPT !.shoot_cooldown = @ - dt]
           fire == Shoots(p2)
           p3   == IF fire THEN [p2 EXCEPT !.shoot_cooldown = ShootPeriod] ELSE p2
           prjs == IF fire /\ add_ok
                   THEN Append(projectile_list[cur], NewProjectile(p3))
                   ELSE projectile_list[cur]
       IN  /\ player' = [player EXCEPT ![cur] = p3]
           /\ spawn_failed' = (spawn_failed \/ (fire /\ (~prj_ok \/ ~add_ok)))
           /\ IF fire /\ ~prj_ok
              THEN /\ ret' = 0
                   /\ UNCHANGED <<enemies, asteroid_list, projectile_list>>
              ELSE /\ enemies' = [enemies EXCEPT ![cur] =
                        [i \in EnemySlots |->
                           IF i < enemy_count[cur] /\ ~EnemySkipped(@[i])
                           THEN SteerEnemy(@[i], p3, dt)
                           ELSE @[i]]]
                   /\ asteroid_list' = [asteroid_list EXCEPT ![cur] =
                        [k \in 1..Len(@) |->
                           UpdateAsteroid(ReadAsteroid(@[k], junk), dt)]]
                   /\ projectile_list' = [projectile_list EXCEPT ![cur] =
                        [k \in 1..Len(prjs) |-> UpdateProjectile(prjs[k], dt)]]
                   /\ ret' = 1
    /\ pc' = "idle"
    /\ UNCHANGED <<live, enemy_count, bodies, sim_time, event_queue,
                   event_count, event_queue_size, sim_acc, cur, dt, evt_i,
                   pending, swapped, add_rets, steps, dt_sum, frames,
                   call_steps, reg_fails, call_produced, call_drained,
                   res, script_rets, held>>

(***************************************************************************)
(* Specifications                                                          *)
(***************************************************************************)
\* contents a dead stack frame may show where a struct Asteroid was
JunkSet ==
    {Asteroid(0, 0, 0, 0, 0, "stack"),
     Asteroid(PosScale, -PosScale, VelScale, -VelScale, -1, "stack")}

\* enemies the level script adds (x, y in px, speed ENEMY_SPEED): on the
\* player's column, one overlapping the player's body and one above it
SpawnSet ==
    {EnemyArg(0, 290 * PosScale, 50 * VelScale),
     EnemyArg(0, 250 * PosScale, 50 * VelScale)}

Next ==
    \/ \E w \in Worlds, e \in SpawnSet, ok \in BOOLEAN : world_add_enemy(w, e, ok)
    \/ \E w \in Worlds, d \in DtSet : UpdateBegin(w, d)
    \/ SimStepBegin
    \/ Callback
    \/ SimStepEnd
    \/ PhysicsDone
    \/ DrainEvent
    \/ DrainEnd
    \/ \E prj_ok \in BOOLEAN, add_ok \in BOOLEAN, junk \in JunkSet :
         UpdateMotion(prj_ok, add_ok, junk)

Spec == Init /\ [][Next]_vars

\* two Worlds in one process; every Body registration succeeds
NextTwo ==
    \/ \E w \in Worlds :
         world_add_enemy(w, EnemyArg(0, 290 * PosScale, 50 * VelScale), TRUE)
    \/ \E w \in Worlds, d \in DtSet : UpdateBegin(w, d)
    \/ SimStepBegin
    \/ Callback
    \/ SimStepEnd
    \/ PhysicsDone
    \/ DrainEvent
    \/ DrainEnd
    \/ \E prj_ok \in BOOLEAN, add_ok \in BOOLEAN, junk \in JunkSet :
         UpdateMotion(prj_ok, add_ok, junk)

SpecTwo == InitTwo /\ [][NextTwo]_vars

\* asteroids a caller adds: x, y, xvel, yvel, rot_speed (per tick, in
\* FULL_TURN / 360)
AsteroidArgs ==
    {<<100 * PosScale, 0, 0, VelScale, 10>>,
     <<-100 * PosScale, 0, VelScale, 0, -10>>,
     <<0, 100 * PosScale, 0, 0, FULL_TURN>>}

\* the same asteroids as records a caller made on the heap
HeapAsteroids ==
    {Asteroid(a[1], a[2], a[3], a[4], a[5], "heap") : a \in AsteroidArgs}

NewStepSet == {NewSteps[k] : k \in 1..Len(NewSteps)}

\* the entity lists of the Worlds ws are filled by a caller (heap records)
\* and by the script
ListNext(ws) ==
    \/ \E w \in ws, ast \in HeapAsteroids, ok \in BOOLEAN :
         world_add_asteroid(w, ast, ok)
    \/ \E w \in ws, a \in AsteroidArgs, ok \in BOOLEAN :
         luafunc_add_asteroid(w, a[1], a[2], a[3], a[4], a[5], ok)
    \/ \E w \in ws, ok \in BOOLEAN :
         world_add_projectile(w, NewProjectile(player[w]), ok)

\* construction with failures at any step, use, destruction
NextLife ==
    \/ \E w \in Worlds, fails \in SUBSET NewStepSet : world_new(w, fails)
    \/ ListNext({"A"})
    \/ \E w \in live, crash \in BOOLEAN : world_destroy(w, crash)

SpecLife == InitLife /\ [][NextLife]_vars

\* world_destroy on every World it can be handed
NextDestroy ==
    \/ ListNext({"A"})
    \/ \E w \in Worlds, crash \in BOOLEAN : world_destroy(w, crash)

SpecDestroy == InitPartial /\ [][NextDestroy]_vars

\* frame times of the shooting runs: a short frame and two shoot periods
ShootDtSet == {MaxDt, 2 * ShootPeriod}

\* one World, the script's enemies, the input layer sets and clears the
\* shoot bit between calls
NextShoot ==
    \/ \E a \in {0, ACTION_SHOOT} : SetActions("A", a)
    \/ \E e \in SpawnSet : luafunc_add_enemy("A", e.x, e.y, e.speed, TRUE)
    \/ \E d \in ShootDtSet : UpdateBegin("A", d)
    \/ SimStepBegin
    \/ Callback
    \/ SimStepEnd
    \/ PhysicsDone
    \/ DrainEvent
    \/ DrainEnd
    \/ \E prj_ok \in BOOLEAN, add_ok \in BOOLEAN, junk \in JunkSet :
         UpdateMotion(prj_ok, add_ok, junk)

SpecShoot == Init /\ [][NextShoot]_vars

\* one World whose asteroids come from a caller (heap records) and from the
\* script, one enemy of the script on the player, frames, destruction
NextAst ==
    \/ \E ast \in HeapAsteroids, ok \in BOOLEAN :
         world_add_asteroid("A", ast, ok)
    \/ \E a \in AsteroidArgs, ok \in BOOLEAN :
         luafunc_add_asteroid("A", a[1], a[2], a[3], a[4], a[5], ok)
    \/ luafunc_add_enemy("A", 0, 290 * PosScale, 50 * VelScale, TRUE)
    \/ \E d \in DtSet : UpdateBegin("A", d)
    \/ SimStepBegin
    \/ Callback
    \/ SimStepEnd
    \/ PhysicsDone
    \/ DrainEvent
    \/ DrainEnd
    \/ \E junk \in JunkSet : UpdateMotion(TRUE, TRUE, junk)
    \/ \E crash \in BOOLEAN : world_destroy("A", crash)

SpecAst == Init /\ [][NextAst]_vars

\* a struct Enemy with a starting velocity, as a caller of world_add_enemy
\* can pass it
EnemyMoving(x, y, speed, xvel, yvel) ==
    [EnemyArg(x, y, speed) EXCEPT !.xvel = xvel, !.yvel = yvel]

\* enemies of speed ENEMY_SPEED above the player: at rest on the player's
\* body, moving sideways at full speed, moving away at twice the speed,
\* and a slow one moving faster than its speed
SteerSpawnSet ==
    {EnemyArg(0, 290 * PosScale, 50 * VelScale),
     EnemyMoving(30 * PosScale, 200 * PosScale, 50 * VelScale,
                 50 * VelScale, 0),
     EnemyMoving(-40 * PosScale, 150 * PosScale, 50 * VelScale,
                 0, -100 * VelScale),
     EnemyMoving(0, 100 * PosScale, VelScale, 3 * VelScale, 4 * VelScale)}

\* one World, enemies with starting velocities added before the first
\* frame, the player moving left and right between frames
NextSteer ==
    \/ \E a \in {0, ACTION_MOVE_LEFT, ACTION_MOVE_RIGHT} : SetActions("A", a)
    \/ frames = 0 /\ \E e \in SteerSpawnSet : world_add_enemy("A", e, TRUE)
    \/ \E d \in DtSet : UpdateBegin("A", d)
    \/ SimStepBegin
    \/ Callback
    \/ SimStepEnd
    \/ PhysicsDone
    \/ DrainEvent
    \/ DrainEnd
    \/ \E junk \in JunkSet : UpdateMotion(TRUE, TRUE, junk)

SpecSteer == Init /\ [][NextSteer]_vars

\* frame times of the pursuit runs, all positive
ChaseDtSet == {SIMULATION_STEP, MaxDt}

\* one World, one enemy of speed ENEMY_SPEED added 81 px straight above the
\* stationary player before the first frame, then frame after frame
NextChase ==
    \/ /\ frames = 0
       /\ enemy_count["A"] = 0
       /\ luafunc_add_enemy("A", 0, 269 * PosScale, 50 * VelScale, TRUE)
    \/ \E d \in ChaseDtSet : UpdateBeginUpTo("A", d, ChaseFrames)
    \/ SimStepBegin
    \/ Callback
    \/ SimStepEnd
    \/ PhysicsDone
    \/ DrainEvent
    \/ DrainEnd
    \/ \E junk \in JunkSet : UpdateMotion(TRUE, TRUE, junk)

\* the steps of the frame loop up to the motion update: the caller's next
\* call and the steps of the running call
ChaseProgress ==
    \/ \E d \in ChaseDtSet : UpdateBeginUpTo("A", d, ChaseFrames)
    \/ SimStepBegin
    \/ Callback
    \/ SimStepEnd
    \/ PhysicsDone
    \/ DrainEvent
    \/ DrainEnd

\* the motion update of a call completes: the only step NextChase takes at
\* pc = "motion" is UpdateMotion, which returns to the caller
MotionReturns == pc = "motion" /\ pc' = "idle"

\* the caller keeps calling world_update, and a call runs to completion
SpecChase ==
    Init /\ [][NextChase]_vars /\ WF_vars(ChaseProgress) /\ WF_pc(MotionReturns)

\* asteroids with ids, as a caller that numbers its asteroids adds them
IdAsteroids ==
    {[Asteroid(100 * PosScale, 0, 0, VelScale, 10, "heap") EXCEPT !.id = 3],
     [Asteroid(0, 100 * PosScale, 0, 0, 0, "heap") EXCEPT !.id = 7]}

\* the bodies of a World's entities
HandlerRefs(w) ==
    {PlayerRef} \cup {EnemyRef(i) : i \in 0..(enemy_count[w] - 1)}
                \cup {AsteroidRef(k) : k \in 1..Len(asteroid_list[w])}

\* one World with enemies and asteroids added before the first frame, each
\* asteroid record once; during the first physics step of a call the engine
\* calls the handler for pairs of the World's bodies, in either order
NextHandler ==
    \/ frames = 0 /\ luafunc_add_enemy("A", 0, 290 * PosScale, 50 * VelScale, TRUE)
    \/ /\ frames = 0
       /\ \E ast \in IdAsteroids :
            /\ \A k \in 1..Len(asteroid_list["A"]) : asteroid_list["A"][k] # ast
            /\ world_add_asteroid("A", ast, TRUE)
    \/ UpdateBeginUpTo("A", SIMULATION_STEP, HandlerFrames)
    \/ SimStepBegin
    \/ Callback
    \/ /\ call_steps = 1
       /\ \E a \in HandlerRefs(cur), b \in HandlerRefs(cur) : HandlerCall(a, b)
    \/ SimStepEnd
    \/ PhysicsDone
    \/ DrainEvent
    \/ DrainEnd
    \/ \E junk \in JunkSet : UpdateMotion(TRUE, TRUE, junk)

SpecHandler == Init /\ [][NextHandler]_vars

\* the move bits the input layer can set: none, left, right, both
MoveSet ==
    {0, ACTION_MOVE_LEFT, ACTION_MOVE_RIGHT, ACTION_MOVE_LEFT + ACTION_MOVE_RIGHT}

\* one World, one enemy of the script on the player, the input layer sets
\* the move bits between calls
NextMove ==
    \/ \E a \in MoveSet : SetActions("A", a)
    \/ frames = 0 /\ luafunc_add_enemy("A", 0, 290 * PosScale, 50 * VelScale, TRUE)
    \/ \E d \in DtSet : UpdateBegin("A", d)
    \/ SimStepBegin
    \/ Callback
    \/ SimStepEnd
    \/ PhysicsDone
    \/ DrainEvent
    \/ DrainEnd
    \/ \E junk \in JunkSet : UpdateMotion(TRUE, TRUE, junk)

SpecMove == Init /\ [][NextMove]_vars

\* one World, one enemy of the script on the player, the input layer sets
\* and clears the shoot bit between calls, the allocations of a shot may
\* fail
NextFire ==
    \/ \E a \in {0, ACTION_SHOOT} : SetActions("A", a)
    \/ frames = 0 /\ luafunc_add_enemy("A", 0, 290 * PosScale, 50 * VelScale, TRUE)
    \/ \E d \in ShootDtSet : UpdateBegin("A", d)
    \/ SimStepBegin
    \/ Callback
    \/ SimStepEnd
    \/ PhysicsDone
    \/ DrainEvent
    \/ DrainEnd
    \/ \E prj_ok \in BOOLEAN, add_ok \in BOOLEAN, junk \in JunkSet :
         UpdateMotion(prj_ok, add_ok, junk)

SpecFire == Init /\ [][NextFire]_vars

\* projectiles a caller of world_add_projectile adds, about to expire
ShortLived ==
    {[id |-> 0, x |-> 0, y |-> 100 * PosScale, xvel |-> 0,
      yvel |-> -PLAYER_PROJECTILE_INITIAL_SPEED, ttl |-> 1],
     [id |-> 0, x |-> PosScale, y |-> 0, xvel |-> VelScale,
      yvel |-> VelScale, ttl |-> 2 * MaxDt]}

\* one World, short-lived projectiles and one enemy added before the first
\* frame, the input layer sets and clears the shoot bit between calls
NextPrj ==
    \/ \E a \in {0, ACTION_SHOOT} : SetActions("A", a)
    \/ frames = 0 /\ \E prj \in ShortLived : world_add_projectile("A", prj, TRUE)
    \/ frames = 0 /\ luafunc_add_enemy("A", 0, 290 * PosScale, 50 * VelScale, TRUE)
    \/ \E d \in DtSet : UpdateBegin("A", d)
    \/ SimStepBegin
    \/ Callback
    \/ SimStepEnd
    \/ PhysicsDone
    \/ DrainEvent
    \/ DrainEnd
    \/ \E prj_ok \in BOOLEAN, add_ok \in BOOLEAN, junk \in JunkSet :
         UpdateMotion(prj_ok, add_ok, junk)

SpecPrj == Init /\ [][NextPrj]_vars


(***************************************************************************)
(* Properties                                                              *)
(***************************************************************************)
\* the event the running event loop is about to apply
NextEvent == event_queue[cur][evt_i + 1]

\* the event loop is about to apply an event
Draining == pc = "events" /\ evt_i < event_count[cur]

\* a dead enemy's Body is neither registered with the engine nor named by
\* a collision the engine has still to report
DeadEnemyAbsent ==
    \A w \in Worlds, i \in EnemySlots :
        (i < enemy_count[w] /\ enemies[w][i].hitpoints <= 0) =>
            /\ Registered(bodies[w], EnemyRef(i)) = 0
            /\ w = cur => \A k \in 1..Len(pending) :
                              /\ pending[k][1] # EnemyRef(i)
                              /\ pending[k][2] # EnemyRef(i)

\* C1: every EnemyHit event for enemy i that the event loop applies lowers
\* the player's hitpoints by exactly ENEMY_COLLISION_DAMAGE, leaves
\* enemies[i].hitpoints = 0 and removes enemy i's Body from the engine; a
\* dead enemy's Body is never registered and never reported again.
C1_EnemyHit ==
    /\ [][Draining /\ NextEvent.type = EVENT_ENEMY_HIT =>
            LET h == NextEvent.entity_hnd
            IN  /\ player'[cur].hitpoints =
                      player[cur].hitpoints - ENEMY_COLLISION_DAMAGE
                /\ enemies'[cur][h].hitpoints = 0
                /\ Registered(bodies'[cur], EnemyRef(h)) = 0]_vars
    /\ []DeadEnemyAbsent

\* an EnemyHit event has just been applied to a full-health player
C1_Witness ==
    /\ pc = "events"
    /\ Len(call_drained) = 1
    /\ call_drained[1].type = EVENT_ENEMY_HIT
    /\ player[cur].hitpoints = PLAYER_INITIAL_HITPOINTS - ENEMY_COLLISION_DAMAGE
    /\ enemies[cur][call_drained[1].entity_hnd].hitpoints = 0
    /\ Registered(bodies[cur], EnemyRef(call_drained[1].entity_hnd)) = 0

\* C2: whenever world_update has returned, the event count of every World
\* is 0 and every event produced during the call was applied exactly once
\* in that call, however many events the call's physics steps produced.
C2_QueueEmptyAfterUpdate ==
    pc = "idle" =>
        /\ \A w \in Worlds : event_count[w] = 0
        /\ call_drained = call_produced

\* a call has returned that produced more events than the base capacity
C2_Witness ==
    /\ pc = "idle"
    /\ Len(call_produced) > EVENT_QUEUE_BASE_SIZE
    /\ event_count[cur] = 0

\* C3 as stated: the event loop of a call runs before any physics step of
\* that call, on events of the previous frame.
C3_DrainBeforePhysics ==
    pc = "events" => call_steps = 0 /\ call_produced = <<>>

\* C3 as amended: in every world_update call the physics steps run first
\* and the event loop runs after the last sim_step of the call and before
\* the entity motion; the queue is empty when a call begins, the events
\* applied are those the same call's physics steps produced, applied in
\* FIFO production order.
C3_DrainAfterPhysics ==
    /\ pc \in {"physics", "sim_step"} =>
           /\ call_drained = <<>>
           /\ event_queue[cur] = call_produced
    /\ pc = "events" =>
           /\ ~StepDue(sim_acc)
           /\ event_queue[cur] = call_produced
           /\ evt_i <= Len(call_produced)
           /\ call_drained = SubSeq(call_produced, 1, evt_i)
    /\ pc = "motion" => call_drained = call_produced

\* two different events of one call have been applied, after two steps
C3_Witness ==
    /\ pc = "events"
    /\ call_steps = 2
    /\ evt_i = 2
    /\ call_drained[1] # call_drained[2]

\* C4: the engine's body list does not change while a sim_step is in
\* progress (the handler only appends to the event queue), and a Body is
\* removed only by the event loop of world_update.
C4_NoBodyMutationInStep ==
    [][/\ pc = "sim_step" => bodies' = bodies
       /\ (\E w \in Worlds : Len(bodies'[w]) < Len(bodies[w])) => pc = "events"
       /\ (\E w \in Worlds : Len(bodies'[w]) > Len(bodies[w])) => pc = "idle"]_vars

\* the handler has enqueued an event inside a sim_step; the Body it was
\* told about is still registered
C4_Witness ==
    /\ pc = "sim_step"
    /\ call_produced # <<>>
    /\ Registered(bodies[cur], EnemyRef(call_produced[1].entity_hnd)) = 1

\* C5: whenever world_update has returned, the number of sim_step calls is
\* floor(sum of dt / SIMULATION_STEP), every sim_step got exactly
\* SIMULATION_STEP, and the accumulator is the remainder, in
\* [0, SIMULATION_STEP).  (One World: Spec.)
C5_FixedSteps ==
    pc = "idle" =>
        /\ steps["A"] = dt_sum["A"] \div SIMULATION_STEP
        /\ sim_time["A"] = steps["A"] * SIMULATION_STEP
        /\ sim_acc = dt_sum["A"] % SIMULATION_STEP
        /\ 0 <= sim_acc /\ sim_acc < SIMULATION_STEP

\* two calls, each shorter than a step, have together produced one step
C5_Witness ==
    /\ pc = "idle"
    /\ frames = 2
    /\ dt = 1
    /\ dt_sum["A"] = SIMULATION_STEP
    /\ steps["A"] = 1
    /\ sim_acc = 0

\* C6: the number of physics steps the engine of each World has received
\* depends only on the dt passed to that World's own world_update calls.
C6_PerWorldAccumulator ==
    pc = "idle" =>
        \A w \in Worlds : steps[w] = dt_sum[w] \div SIMULATION_STEP

Frozen(e) == <<e.x, e.y, e.xvel, e.yvel, e.rot, e.hitpoints>>

\* C8: an enemy whose hitpoints are <= 0 keeps its position, velocity,
\* rotation and hitpoints in every step, and enemy_count never decreases.
C8_DeadEnemyFrozen ==
    [][\A w \in Worlds :
          /\ enemy_count'[w] >= enemy_count[w]
          /\ \A i \in EnemySlots :
                (i < enemy_count[w] /\ enemies[w][i].hitpoints <= 0) =>
                    Frozen(enemies'[w][i]) = Frozen(enemies[w][i])]_vars

\* a call with dt > 0 that applied no event has returned while one enemy
\* was dead and another one, alive, was moved
C8_Witness ==
    /\ pc = "idle"
    /\ frames = 2
    /\ dt > 0
    /\ call_drained = <<>>
    /\ \E i, j \in EnemySlots :
          /\ i < enemy_count[cur] /\ enemies[cur][i].hitpoints <= 0
          /\ j < enemy_count[cur] /\ enemies[cur][j].hitpoints > 0
          /\ enemies[cur][j].yvel # 0

\* C9: while every Body registration has succeeded, the k-th
\* world_add_enemy call returns k-1 for k <= MAX_ENEMIES and -1 after
\* that; a call made when the array is full leaves enemy_count, the enemy
\* slots and the engine's body list unchanged.
C9_AddEnemyCapacity ==
    /\ [](\A w \in Worlds :
            reg_fails[w] = 0 =>
                \A k \in 1..Len(add_rets[w]) :
                    add_rets[w][k] = IF k <= MAX_ENEMIES THEN k - 1 ELSE -1)
    /\ [][\A w \in Worlds :
            (/\ Len(add_rets'[w]) > Len(add_rets[w])
             /\ enemy_count[w] = MAX_ENEMIES) =>
                /\ ret' = -1
                /\ UNCHANGED <<enemy_count, enemies, bodies>>]_vars

\* MAX_ENEMIES + 1 calls, every registration succeeded, the last rejected
C9_Witness ==
    /\ Len(add_rets["A"]) = MAX_ENEMIES + 1
    /\ reg_fails["A"] = 0
    /\ add_rets["A"][MAX_ENEMIES] = MAX_ENEMIES - 1
    /\ add_rets["A"][MAX_ENEMIES + 1] = -1
    /\ enemy_count["A"] = MAX_ENEMIES

\* C10: every used enemy slot with hitpoints > 0 has exactly one Body
\* registered with the engine, and every one with hitpoints <= 0 none.
C10_LiveEnemyHasBody ==
    \A w \in Worlds, i \in EnemySlots :
        i < enemy_count[w] =>
            Registered(bodies[w], EnemyRef(i)) =
                IF enemies[w][i].hitpoints > 0 THEN 1 ELSE 0


(***************************************************************************)
(* C11: construction failures                                              *)
(***************************************************************************)
\* C11: when world_new returns NULL for a World, whichever of its steps
\* failed, nothing it allocated in that call remains allocated
C11_NewUnwinds ==
    [][\A w \in Worlds :
         (res[w] = NoWorld /\ w \notin live') =>
            \A f \in ResFields : res'[w][f] # "live"]_vars

(***************************************************************************)
(* C12: destruction of a partially constructed World                       *)
(***************************************************************************)
\* C12: world_destroy on a World, whichever of its fields are still null,
\* releases every allocation that was made exactly once, touches no null
\* field and frees the World
C12_DestroyPartial ==
    [][\A w \in Worlds :
         (res[w].world = "live" /\ res'[w].world # "live") =>
            /\ \A f \in ResFields : res[w][f] = "live" => res'[w][f] = "freed"
            /\ \A f \in ResFields : res[w][f] = "null" => res'[w][f] = "null"
            /\ asteroid_list'[w] = <<>>
            /\ projectile_list'[w] = <<>>]_vars

(***************************************************************************)
(* C13: a failed projectile spawn                                          *)
(***************************************************************************)
\* the player as the shoot condition sees it: moved, cooldown decremented
Cooled(w, d) == [MovePlayer(player[w], d) EXCEPT !.shoot_cooldown = @ - d]

\* the enemy pass of a call with frame time d
EnemyPass(w, d) ==
    [i \in EnemySlots |->
       IF i < enemy_count[w] /\ ~EnemySkipped(enemies[w][i])
       THEN SteerEnemy(enemies[w][i], Cooled(w, d), d)
       ELSE enemies[w][i]]

\* the motion part of a call fired and no projectile was appended
SpawnFails ==
    /\ pc = "motion"
    /\ pc' = "idle"
    /\ Shoots(Cooled(cur, dt))
    /\ Len(projectile_list'[cur]) = Len(projectile_list[cur])

\* C13: when a projectile spawn fails, the enemy pass, the asteroid
\* integration and the projectile integration of the same call still run,
\* as they would without the shot
C13_FailedSpawnKeepsFrame ==
    [][SpawnFails =>
         /\ enemies'[cur] = EnemyPass(cur, dt)
         /\ asteroid_list'[cur] =
              [k \in 1..Len(asteroid_list[cur]) |->
                 UpdateAsteroid(asteroid_list[cur][k], dt)]
         /\ projectile_list'[cur] =
              [k \in 1..Len(projectile_list[cur]) |->
                 UpdateProjectile(projectile_list[cur][k], dt)]]_vars

(***************************************************************************)
(* C14: fire rate                                                          *)
(***************************************************************************)
\* floor(T * R) for the frame times passed to w so far
ShotsDue(w) == (dt_sum[w] * PLAYER_ACTION_SHOOT_RATE) \div TicksPerSecond

\* C14: with the shoot bit set in every call and no spawn failing, the
\* number of projectiles after the calls is floor(T * R), or one more for
\* the shot of the first call, whatever the frame times are
C14_ShotsPerSecond ==
    \A w \in live :
       (pc = "idle" /\ dt_sum[w] > 0 /\ held[w] /\ ~spawn_failed) =>
          Len(projectile_list[w]) \in {ShotsDue(w), ShotsDue(w) + 1}

(***************************************************************************)
(* C15: ownership of asteroid records                                      *)
(***************************************************************************)
\* C15: every record the asteroid list of a World refers to is a heap
\* record that exists, also when the script added it; a failed add leaves
\* the list as it was
C15_AsteroidRecordsLive ==
    /\ [](\A w \in live : \A k \in 1..Len(asteroid_list[w]) :
            asteroid_list[w][k].mem = "heap")
    /\ [][\A w \in live :
            (pc = "idle" /\ pc' = "idle" /\ live' = live /\ ret' = 0) =>
               asteroid_list'[w] = asteroid_list[w]]_vars

(***************************************************************************)
(* C16: handles returned to the script                                     *)
(***************************************************************************)
\* the asteroids the script added successfully, as indices of script_rets
Handled(w) ==
    {k \in 1..Len(script_rets[w]) :
       script_rets[w][k].pos \in 1..Len(asteroid_list[w])}

\* C16: game.add_enemy returns the slot index or the failure sentinel;
\* game.add_asteroid returns a handle that differs between asteroids and
\* equals the id an AsteroidHit event of that asteroid carries
C16_ScriptHandles ==
    \A w \in live :
       /\ \A k \in 1..Len(add_rets[w]) : add_rets[w][k] \in EnemySlots \cup {-1}
       /\ \A k \in Handled(w) :
            /\ script_rets[w][k].ret =
                 asteroid_list[w][script_rets[w][k].pos].id
            /\ \A j \in Handled(w) \ {k} :
                 script_rets[w][j].ret # script_rets[w][k].ret

(***************************************************************************)
(* C18: asteroid kinematics                                                *)
(***************************************************************************)
\* C18: between calls the rotation of every asteroid is in [0, full turn),
\* whatever its rotation speed and the frame time, and every call advances
\* its position by velocity * dt
C18_RotationWrapped ==
    /\ [](\A w \in live : \A k \in 1..Len(asteroid_list[w]) :
            (pc = "idle" /\ asteroid_list[w][k].mem = "heap") =>
               (asteroid_list[w][k].rot >= 0
                /\ asteroid_list[w][k].rot < FULL_TURN))
    /\ [][(pc = "motion" /\ pc' = "idle") =>
            \A k \in 1..Len(asteroid_list[cur]) :
               asteroid_list[cur][k].mem = "heap" =>
                  /\ asteroid_list'[cur][k].x = asteroid_list[cur][k].x
                        + asteroid_list[cur][k].xvel * dt
                  /\ asteroid_list'[cur][k].y = asteroid_list[cur][k].y
                        + asteroid_list[cur][k].yvel * dt]_vars

(***************************************************************************)
(* C17: steering bounds                                                    *)
(***************************************************************************)
\* the velocity of an enemy
Velocity(e) == vec(e.xvel, e.yvel)

\* the length of v is at most max
Within(v, max) == vec_len2(v) <= max * max

\* the enemies the enemy pass of the running call steers
Steered == {i \in EnemySlots : i < enemy_count[cur] /\ ~EnemySkipped(enemies[cur][i])}

\* the motion part of a call that runs the enemy pass
MotionStep == pc = "motion" /\ pc' = "idle" /\ ret' = 1

\* C17 as stated: after the steering update the velocity of a live enemy
\* is within its speed, and the velocity has changed by at most the
\* maximum turn rate, whatever the starting velocity was
C17_SteerBounded ==
    [][MotionStep =>
         \A i \in Steered :
            /\ Within(Velocity(enemies'[cur][i]), enemies[cur][i].speed)
            /\ Within(vec_sub(Velocity(enemies'[cur][i]),
                              Velocity(enemies[cur][i])), MAX_STEER)]_vars

\* C17, amended: after the steering update the velocity of a live enemy is
\* within its speed whatever the starting velocity was, and it has changed
\* by at most the maximum turn rate if the starting velocity was within the
\* speed
C17_SteerBoundedWithinSpeed ==
    [][MotionStep =>
         \A i \in Steered :
            /\ Within(Velocity(enemies'[cur][i]), enemies[cur][i].speed)
            /\ Within(Velocity(enemies[cur][i]), enemies[cur][i].speed) =>
                 Within(vec_sub(Velocity(enemies'[cur][i]),
                                Velocity(enemies[cur][i])), MAX_STEER)]_vars

\* calls have steered an enemy that was added faster than its speed and one
\* that was added at its speed, with the player away from where it started
C17_Witness ==
    /\ pc = "idle"
    /\ player["A"].x # 0
    /\ \E i \in EnemySlots :
         /\ i < enemy_count["A"]
         /\ enemies["A"][i].rot # ZeroRot
         /\ enemies["A"][i].speed = VelScale
         /\ Within(Velocity(enemies["A"][i]), VelScale)
    /\ \E i \in EnemySlots :
         /\ i < enemy_count["A"]
         /\ enemies["A"][i].rot # ZeroRot
         /\ enemies["A"][i].speed = 50 * VelScale
         /\ enemies["A"][i].yvel > 0

(***************************************************************************)
(* C19: events before motion                                               *)
(***************************************************************************)
\* what the entity motion update of world_update writes
MotionState(w) ==
    <<player[w].x, player[w].body.x, player[w].shoot_cooldown,
      [i \in EnemySlots |->
         <<enemies[w][i].x, enemies[w][i].y, enemies[w][i].xvel,
           enemies[w][i].yvel, enemies[w][i].rot>>],
      asteroid_list[w], projectile_list[w]>>

\* C19: within a call no entity is moved while the physics steps and the
\* event loop run; when the motion update starts every event the call
\* produced has been applied, in production order, and the motion update
\* does not move an enemy whose EnemyHit the call applied
C19_EventsBeforeMotion ==
    [][/\ pc \in {"physics", "sim_step", "events"} =>
            MotionState(cur)' = MotionState(cur)
       /\ (pc = "motion" /\ pc' = "idle") =>
            /\ event_count[cur] = 0
            /\ call_drained = call_produced
            /\ \A k \in 1..Len(call_drained) :
                 call_drained[k].type = EVENT_ENEMY_HIT =>
                    Frozen(enemies'[cur][call_drained[k].entity_hnd]) =
                    Frozen(enemies[cur][call_drained[k].entity_hnd])]_vars

\* the first call, with dt > 0, has applied an EnemyHit, moved the player
\* and steered another enemy
C19_Witness ==
    /\ pc = "idle"
    /\ frames = 1
    /\ dt > 0
    /\ ret = 1
    /\ call_drained # <<>>
    /\ player[cur].x # 0
    /\ \E i \in EnemySlots :
         /\ i < enemy_count[cur]
         /\ enemies[cur][i].hitpoints > 0
         /\ enemies[cur][i].rot # ZeroRot

(***************************************************************************)
(* C20: pursuit                                                            *)
(***************************************************************************)
\* squared distance between an enemy and the player, in 1/VelScale of the
\* position unit
Dist2(w, i) ==
    vec_len2([x |-> TruncDiv(player[w].x - enemies[w][i].x, VelScale),
              y |-> TruncDiv(player[w].y - enemies[w][i].y, VelScale)])

\* the enemy of the pursuit is alive
Chasing == enemy_count["A"] = 1 /\ enemies["A"][0].hitpoints > 0

\* every call brings the enemy closer to the player as long as their
\* bodies do not overlap
Approaches ==
    [][(MotionStep /\ Chasing
        /\ ~Overlap(player["A"].body, enemies["A"][0].body)) =>
          Dist2("A", 0)' < Dist2("A", 0)]_vars

ChaseEnemyFirst ==
    swapped =>
      /\ event_count["A"] = 0
      /\ enemy_count["A"] = 1 => enemies["A"][0].hitpoints > 0

\* the same for an engine that passes the Player's body to the handler as
\* its first argument
ChasePlayerFirst ==
    /\ Approaches
    /\ (~swapped /\ Chasing) ~> (enemies["A"][0].hitpoints = 0)

(***************************************************************************)
(* C21: outcome of one handler call                                        *)
(***************************************************************************)
\* the events of the queue of World w
Queued(w) == SubSeq(event_queue[w], 1, event_count[w])

\* the step appends exactly the event evt to the queue of the running World
Enqueues(evt) == Queued(cur)' = Append(Queued(cur), evt)

\* the step leaves the queue of the running World as it is
EnqueuesNothing == Queued(cur)' = Queued(cur)

\* the handler call (a, b) returns (add_event does not exit the process)
HandlerReturns(a, b) == HandlerCall(a, b) /\ pc' # "exited"

PlayerEnemyPair(a, b) ==
    \/ a.type = BODY_TYPE_PLAYER /\ b.type = BODY_TYPE_ENEMY
    \/ a.type = BODY_TYPE_ENEMY /\ b.type = BODY_TYPE_PLAYER

\* the enemy of such a pair
EnemyOfPair(a, b) == IF a.type = BODY_TYPE_ENEMY THEN a.idx ELSE b.idx

\* C22: a handler call for the Player's body and an enemy's body enqueues
\* the EnemyHit of that enemy whichever of the two arguments is the Player
C22_EitherOrder ==
    [][\A a \in HandlerRefs(cur), b \in HandlerRefs(cur) :
         (HandlerReturns(a, b) /\ PlayerEnemyPair(a, b)) =>
            Enqueues([type |-> EVENT_ENEMY_HIT,
                      entity_hnd |-> EnemyOfPair(a, b)])]_vars

(***************************************************************************)
(* C23: one hit per enemy                                                  *)
(***************************************************************************)
\* the queue entry k of World w is the EnemyHit of enemy i
HitOf(w, k, i) ==
    event_queue[w][k] = [type |-> EVENT_ENEMY_HIT, entity_hnd |-> i]

\* C23: the queue never holds two EnemyHit events of the same enemy, and
\* the player has lost ENEMY_COLLISION_DAMAGE at most once per enemy
C23_OneHitPerEnemy ==
    \A w \in live :
       /\ \A j \in 1..event_count[w], k \in 1..event_count[w] :
            \A i \in EnemySlots : (HitOf(w, j, i) /\ HitOf(w, k, i)) => j = k
       /\ player[w].hitpoints >=
            PLAYER_INITIAL_HITPOINTS - ENEMY_COLLISION_DAMAGE * enemy_count[w]

(***************************************************************************)
(* C24: player movement                                                    *)
(***************************************************************************)
\* the x the movement rule gives a player p after a call with frame time d
MovedX(p, d) ==
    IF HasBit(p.actions, ACTION_MOVE_LEFT) THEN p.x - p.speed * d
    ELSE IF HasBit(p.actions, ACTION_MOVE_RIGHT) THEN p.x + p.speed * d
    ELSE p.x

\* C24: a call moves the player left by speed * dt when the move-left bit
\* is set (also with move-right set), else right by speed * dt when the
\* move-right bit is set, else not at all; nothing else moves the player;
\* the player's y keeps its initial value and between calls the x of the
\* player's Body is the player's x
C24_PlayerMoves ==
    /\ [][(pc = "motion" /\ pc' = "idle") =>
            player'[cur].x = MovedX(player[cur], dt)]_vars
    /\ [][\A w \in live :
            player'[w].x # player[w].x => (pc = "motion" /\ w = cur)]_vars
    /\ [](\A w \in live :
            /\ player[w].y = InitPlayer.y
            /\ player[w].body.y = InitPlayer.body.y
            /\ pc = "idle" => player[w].body.x = player[w].x)

\* a call with both move bits set has moved the player to the left
C24_Witness ==
    /\ pc = "idle"
    /\ frames = 1
    /\ player["A"].actions = ACTION_MOVE_LEFT + ACTION_MOVE_RIGHT
    /\ player["A"].x = -(PLAYER_INITIAL_SPEED * MaxDt)
    /\ player["A"].body.x = player["A"].x

(***************************************************************************)
(* C25: shooting rule                                                      *)
(***************************************************************************)
\* the shooting code of a call runs (also in a call that returns 0)
ShootStep == pc = "motion" /\ pc' = "idle"

\* the shoot bit is set and the decremented cooldown has run out
ShotDue ==
    /\ HasBit(player[cur].actions, ACTION_SHOOT)
    /\ player[cur].shoot_cooldown - dt <= 0

\* the cooldown after the shooting code
CooldownRule ==
    player'[cur].shoot_cooldown =
      IF ShotDue THEN TicksPerSecond \div PLAYER_ACTION_SHOOT_RATE
      ELSE player[cur].shoot_cooldown - dt

\* a projectile as the shooting code fills it in, at the moved player
ShotAt(p) ==
    [id |-> 0, x |-> p.x, y |-> p.y, xvel |-> 0,
     yvel |-> -PLAYER_PROJECTILE_INITIAL_SPEED, ttl |-> PLAYER_PROJECTILE_TTL]

\* the call has appended exactly one projectile, the shot, which the
\* projectile pass of the same call has then integrated once
OneShotAppended ==
    /\ Len(projectile_list'[cur]) = Len(projectile_list[cur]) + 1
    /\ projectile_list'[cur][Len(projectile_list'[cur])] =
         UpdateProjectile(ShotAt(player'[cur]), dt)

\* the call has appended no projectile
NoShotAppended == Len(projectile_list'[cur]) = Len(projectile_list[cur])

\* C25 as stated: every call decrements the cooldown by dt; a projectile
\* is appended if and only if the shoot bit is set and the decremented
\* cooldown is <= 0, and then the cooldown is reset to 1 / rate and exactly
\* one projectile with the fixed velocity and ttl is appended
C25_ShootRule ==
    [][ShootStep =>
         /\ CooldownRule
         /\ IF ShotDue THEN OneShotAppended ELSE NoShotAppended]_vars

\* C25 with the spawn failure: when the shot is due, either exactly one
\* projectile is appended or the spawn has failed and none is; the
\* cooldown is reset in both cases
C25_ShootRuleUnlessSpawnFails ==
    [][ShootStep =>
         /\ CooldownRule
         /\ IF ShotDue
            THEN \/ OneShotAppended
                 \/ spawn_failed' /\ NoShotAppended
            ELSE NoShotAppended /\ spawn_failed' = spawn_failed]_vars

\* a call has fired: the list holds the shot, moved by one frame, and the
\* cooldown is reset; no spawn has failed
C25_Witness ==
    /\ pc = "idle"
    /\ ~spawn_failed
    /\ player["A"].shoot_cooldown = TicksPerSecond \div PLAYER_ACTION_SHOOT_RATE
    /\ Len(projectile_list["A"]) = 1
    /\ projectile_list["A"][1].ttl = PLAYER_PROJECTILE_TTL - MaxDt
    /\ projectile_list["A"][1].y =
         player["A"].y - PLAYER_PROJECTILE_INITIAL_SPEED * MaxDt

(***************************************************************************)
(* C26: projectiles                                                        *)
(***************************************************************************)
\* a projectile one frame of d later
Flown(prj, d) ==
    [id |-> prj.id, x |-> prj.x + prj.xvel * d, y |-> prj.y + prj.yvel * d,
     xvel |-> prj.xvel, yvel |-> prj.yvel, ttl |-> prj.ttl - d]

\* C26: a projectile changes only in the projectile pass of a call, only
\* while its ttl is positive, and then by one frame of flight; a projectile
\* whose ttl is <= 0 never changes again; no step shortens the list
C26_ProjectilesFreeze ==
    [][\A w \in live :
         /\ Len(projectile_list'[w]) >= Len(projectile_list[w])
         /\ \A k \in 1..Len(projectile_list[w]) :
              LET prj == projectile_list[w][k]
              IN  /\ prj.ttl <= 0 => projectile_list'[w][k] = prj
                  /\ projectile_list'[w][k] # prj =>
                       /\ pc = "motion" /\ w = cur
                       /\ prj.ttl > 0
                       /\ projectile_list'[w][k] = Flown(prj, dt)]_vars

\* a projectile added with ttl 1 has flown for one frame of MaxDt, expired,
\* and has been through a second frame of MaxDt unchanged
C26_Witness ==
    /\ pc = "idle"
    /\ frames = 2
    /\ dt_sum["A"] = 2 * MaxDt
    /\ Len(projectile_list["A"]) >= 1
    /\ projectile_list["A"][1].ttl = 1 - MaxDt
    /\ projectile_list["A"][1].y =
         100 * PosScale - PLAYER_PROJECTILE_INITIAL_SPEED * MaxDt

(***************************************************************************)
(* C27: enemy handles                                                      *)
(***************************************************************************)
\* the used slots of World w
UsedSlots(w) == 0..(enemy_count[w] - 1)

\* C27: the id of every used slot is its index and the count stays within
\* MAX_ENEMIES; the count never decreases; an add fills the first unused
\* slot and leaves the used ones alone, dead or alive; no step changes
\* the id of a used slot; every EnemyHit the event loop applies names a
\* used slot
C27_StableHandles ==
    /\ [](\A w \in live :
            /\ enemy_count[w] \in 0..MAX_ENEMIES
            /\ \A i \in UsedSlots(w) : enemies[w][i].id = i)
    /\ [][\A w \in live :
            /\ enemy_count'[w] >= enemy_count[w]
            /\ \A i \in UsedSlots(w) : enemies'[w][i].id = enemies[w][i].id
            /\ enemy_count'[w] > enemy_count[w] =>
                 /\ enemy_count'[w] = enemy_count[w] + 1
                 /\ \A i \in UsedSlots(w) : enemies'[w][i] = enemies[w][i]]_vars
    /\ []((Draining /\ NextEvent.type = EVENT_ENEMY_HIT) =>
            NextEvent.entity_hnd \in UsedSlots(cur))

\* enemy 0 has died in the call that has just returned and keeps its slot;
\* enemy 1 is alive in the next slot
C27_Witness ==
    /\ pc = "idle"
    /\ enemy_count["A"] = 2
    /\ enemies["A"][0].hitpoints = 0
    /\ enemies["A"][0].id = 0
    /\ enemies["A"][1].hitpoints = ENEMY_INITIAL_HITPOINTS
    /\ enemies["A"][1].id = 1
    /\ \E k \in 1..Len(call_drained) :
         call_drained[k] = [type |-> EVENT_ENEMY_HIT, entity_hnd |-> 0]

====
